---- MODULE Spec2Model ----
(***************************************************************************)
(* Batched background migrations of PrairieLearn (packages/migrations):    *)
(* the BatchedMigrationsRunner scheduling loop, its control surface        *)
(* (enqueue / finalize / stop), the batched_migrations table and the       *)
(* named lock that serialises work on one migration.                       *)
(*                                                                         *)
(* Several server processes share one record store (rows) and one lock     *)
(* service (locks).  Each process runs at most one scheduling loop, and    *)
(* one operator call of finalizeBatchedMigration may be in flight through  *)
(* each process.                                                           *)
(***************************************************************************)
EXTENDS Integers, Sequences, FiniteSets, TLC

\* ------------------------------------------------------------ constants

DEFAULT_MIN_VALUE == 1
DEFAULT_BATCH_SIZE == 1000

\* How many process crashes a behaviour may contain.
MaxCrashes == 1

Procs == {"p1", "p2"}

\* Migration timestamps (14 digits in the repository, two characters here),
\* as sequences of characters so that identifier parsing is a computation.
T1 == <<"2", "0">>
T2 == <<"2", "1">>
Timestamps == {T1, T2}

\* Identifiers handed to enqueue / finalize: <timestamp>[_suffix].  <<"2">>
\* is the leading timestamp of no migration file.
Identifiers ==
  { T1, T1 \o <<"_", "a">>, T2 \o <<"_", "a">>, <<"2">>, <<"2", "_", "a">> }

\* Optional values of the parameter object returned by getParameters().
Null == [kind |-> "null"]
Absent == [kind |-> "undefined"]
Val(v) == [kind |-> "value", v |-> v]

\* `a ?? b` of TypeScript: b when a is null or undefined.
Coalesce(a, b) == IF a.kind = "value" THEN a.v ELSE b

NoFile == <<>>

VARIABLES
  options,   \* per process: BatchedMigrationRunnerOptions and the files on its disk
  defs,      \* per timestamp: the user-authored migration (parameters, may runBatch throw)
  rows,      \* the batched_migrations table, in id order
  calls,     \* per row id: the ranges of the runBatch calls that returned, in order
  locks,     \* named locks held: pairs <<lock name, holding process>>
  pc,        \* per process: position of its scheduling loop
  mig,       \* per process: id of the row its round works on (0: none)
  batch,     \* per process: range of the batch its runner is on (<<>>: none)
  aborted,   \* per process: abortController.signal.aborted
  running,   \* per process: BatchedMigrationsRunner.running
  stopPc,    \* per process: position of a stop() call
  emitted,   \* per process: 'error' events emitted in the latest round
  fin,       \* per process: the finalizeBatchedMigration call in flight through it
  result,    \* outcome of the latest enqueue / finalize call that returned or threw
  crashes    \* process crashes so far

vars ==
  << options, defs, rows, calls, locks, pc, mig, batch, aborted, running,
     stopPc, emitted, fin, result, crashes >>

loopVars == << pc, mig, batch, aborted, running, stopPc, emitted >>

\* ------------------------------------------------------ pure functions

\* identifier.split('_')[0]
RECURSIVE SplitFirst(_)
SplitFirst(s) ==
  IF s = <<>> THEN <<>>
  ELSE IF Head(s) = "_" THEN <<>>
  ELSE <<Head(s)>> \o SplitFirst(Tail(s))

IsPrefix(s, t) == Len(s) <= Len(t) /\ SubSeq(t, 1, Len(s)) = s

\* A slip of getMigrationForIdentifier: startsWith instead of ===.
getMigrationForIdentifierPrefix(p, identifier) ==
  LET timestamp == SplitFirst(identifier)
      found == { m \in options[p].files : IsPrefix(timestamp, m) }
  IN  IF found = {} THEN NoFile ELSE CHOOSE m \in found : TRUE

\* migrationFiles.find((m) => m.timestamp === timestamp) ?? null
getMigrationForIdentifier(p, identifier) ==
  LET timestamp == SplitFirst(identifier)
      found == { m \in options[p].files : m = timestamp }
  IN  IF found = {} THEN NoFile ELSE CHOOSE m \in found : TRUE

\* A slip of lockNameForTimestamp: the timestamp left out of the name.
lockNameForTimestampNoTimestamp(p, timestamp) ==
  << "batched-migrations", options[p].project, <<>> >>

\* `batched-migrations:${this.options.project}:${timestamp}`
lockNameForTimestamp(p, timestamp) ==
  << "batched-migrations", options[p].project, timestamp >>

\* A slip of enqueue's defaults: the batch size defaulted from the wrong constant.
EnqueueRecordWrongDefault(p, file, params) ==
  LET minValue == Coalesce(params.min, DEFAULT_MIN_VALUE)
      maxValue == Coalesce(params.max, minValue)
      batchSize == Coalesce(params.batchSize, DEFAULT_MIN_VALUE)
  IN  [ project |-> options[p].project,
        filename |-> defs[file].filename,
        timestamp |-> file,
        batch_size |-> batchSize,
        min_value |-> minValue,
        max_value |-> maxValue,
        status |-> IF params.max.kind = "null" THEN "succeeded" ELSE "pending" ]

\* The object enqueueBatchedMigration hands to insertBatchedMigration.
EnqueueRecord(p, file, params) ==
  LET minValue == Coalesce(params.min, DEFAULT_MIN_VALUE)
      maxValue == Coalesce(params.max, minValue)
      batchSize == Coalesce(params.batchSize, DEFAULT_BATCH_SIZE)
  IN  [ project |-> options[p].project,
        filename |-> defs[file].filename,
        timestamp |-> file,
        batch_size |-> batchSize,
        min_value |-> minValue,
        max_value |-> maxValue,
        status |-> IF params.max.kind = "null" THEN "succeeded" ELSE "pending" ]

\* ------------------------------------------------------ the record store

\* Default of the status column for a row inserted without one.
StatusColumnDefault == "pending"

RowIds(store) == 1 .. Len(store)

\* A store whose (project, timestamp) key is not unique.
DuplicateKeyNever(store, project, timestamp) == FALSE

\* The unique key (project, timestamp) of batched_migrations.
DuplicateKey(store, project, timestamp) ==
  \E i \in RowIds(store) :
    store[i].project = project /\ store[i].timestamp = timestamp

\* insert_batched_migration: the columns the statement lists; status is not
\* one of them, so the column default applies whatever rec.status says.  The
\* cursor starts before the range.
InsertedRow(store, rec) ==
  [ id |-> Len(store) + 1,
    project |-> rec.project,
    filename |-> rec.filename,
    timestamp |-> rec.timestamp,
    batch_size |-> rec.batch_size,
    min_value |-> rec.min_value,
    max_value |-> rec.max_value,
    status |-> StatusColumnDefault,
    cursor |-> rec.min_value - 1 ]

\* update_batched_migration_status: UPDATE ... SET status WHERE id = $id
UpdateStatus(store, id, status) ==
  [ store EXCEPT ![id].status = status ]

\* selectBatchedMigrationForTimestamp: row ids matching (empty: NotFound).
SelectForTimestamp(store, project, timestamp) ==
  { i \in RowIds(store) :
      store[i].project = project /\ store[i].timestamp = timestamp }

RunnableCandidateOrFinalizing(store, project) ==
  LET cand == { i \in RowIds(store) :
                  /\ store[i].project = project
                  /\ store[i].status \in {"pending", "running", "finalizing"} }
  IN  IF cand = {} THEN 0
      ELSE CHOOSE i \in cand : \A j \in cand : i <= j

RunnableCandidateNewest(store, project) ==
  LET cand == { i \in RowIds(store) :
                  /\ store[i].project = project
                  /\ store[i].status \in {"pending", "running"} }
  IN  IF cand = {} THEN 0
      ELSE CHOOSE i \in cand : \A j \in cand : i >= j

\* select_or_start_running_migration: the lowest-id pending or running row
\* of the project (0: none).
RunnableCandidate(store, project) ==
  LET cand == { i \in RowIds(store) :
                  /\ store[i].project = project
                  /\ store[i].status \in {"pending", "running"} }
  IN  IF cand = {} THEN 0
      ELSE CHOOSE i \in cand : \A j \in cand : i <= j

\* ------------------------------------------------------ the lock service

LockHeld(name) == \E l \in locks : l[1] = name

\* ---------------------------------------------------- the batch runner

\* A runner that does not truncate the last subrange at max_value.
NextBatchBoundsUntruncated(row) ==
  IF row.cursor + 1 > row.max_value
    THEN <<>>
    ELSE << row.cursor + 1, row.cursor + row.batch_size >>

\* The next subrange [cursor+1, min(cursor+batch_size, max_value)], or <<>>
\* when the cursor has reached max_value.
NextBatchBounds(row) ==
  LET nextMin == row.cursor + 1
      nextMax == IF row.cursor + row.batch_size > row.max_value
                 THEN row.max_value
                 ELSE row.cursor + row.batch_size
  IN  IF nextMin > row.max_value THEN <<>> ELSE << nextMin, nextMax >>

\* ------------------------------------------------------------- Init

Param(min, max, batchSize) == [min |-> min, max |-> max, batchSize |-> batchSize]

Def(filename, params, fails) ==
  [filename |-> filename, params |-> params, fails |-> fails]

\* No finalize call in flight through a process.
FinIdle ==
  [pc |-> "none", identifier |-> <<>>, mig |-> 0, batch |-> <<>>,
   start |-> 0, ran |-> <<>>]

\* No lock is held, no loop has started, no call is in flight.
InitProcs ==
  /\ locks = {}
  /\ pc = [p \in Procs |-> "idle"]
  /\ mig = [p \in Procs |-> 0]
  /\ batch = [p \in Procs |-> <<>>]
  /\ aborted = [p \in Procs |-> FALSE]
  /\ running = [p \in Procs |-> FALSE]
  /\ stopPc = [p \in Procs |-> "none"]
  /\ emitted = [p \in Procs |-> 0]
  /\ fin = [p \in Procs |-> FinIdle]
  /\ crashes = 0

InitRest ==
  /\ rows = <<>>
  /\ calls = <<>>
  /\ InitProcs


\* ------------------------------------------------------ control surface

\* What `result` becomes when a call ends with outcome r.  Call outcomes are
\* observed only in the specifications whose Init starts result at "none";
\* the others leave it "unobserved" throughout.
Outcome(r) == IF result = "unobserved" THEN result ELSE r

\* enqueueBatchedMigration(identifier), called through process p.  The
\* INSERT is its only access to shared state, so the call is one step.
Enqueue(p, identifier) ==
  LET file == getMigrationForIdentifier(p, identifier) IN
  /\ IF file = NoFile
       THEN /\ result' = Outcome("NotFound")
            /\ UNCHANGED << rows, calls >>
       ELSE LET rec == EnqueueRecord(p, file, defs[file].params) IN
            IF DuplicateKey(rows, rec.project, rec.timestamp)
              THEN /\ result' = Outcome("AlreadyExists")
                   /\ UNCHANGED << rows, calls >>
              ELSE /\ rows' = Append(rows, InsertedRow(rows, rec))
                   /\ calls' = Append(calls, <<>>)
                   /\ result' = Outcome("ok")
  /\ UNCHANGED << options, defs, locks, loopVars, fin, crashes >>

\* ------------------------------------------------------ scheduling loop

\* start() without the test of the running flag.
StartWhileRunning(p) ==
  /\ pc[p] # "null"
  /\ IF aborted[p]
       THEN /\ pc' = [pc EXCEPT ![p] = "stopped"]
            /\ running' = [running EXCEPT ![p] = FALSE]
       ELSE /\ running' = [running EXCEPT ![p] = TRUE]
            /\ pc' = [pc EXCEPT ![p] = "top"]
  /\ UNCHANGED << options, defs, rows, calls, locks, mig, batch, aborted,
                  stopPc, emitted, fin, result, crashes >>

\* start(): throws when running, else loop() runs up to its first await:
\* it sets running = true, and with the signal already aborted it sets
\* running = false again and returns, all in one turn of the event loop.
Start(p) ==
  /\ pc[p] \in {"idle", "stopped"}
  /\ ~running[p]
  /\ IF aborted[p]
       THEN /\ pc' = [pc EXCEPT ![p] = "stopped"]
            /\ UNCHANGED running
       ELSE /\ running' = [running EXCEPT ![p] = TRUE]
            /\ pc' = [pc EXCEPT ![p] = "top"]
  /\ UNCHANGED << options, defs, rows, calls, locks, mig, batch, aborted,
                  stopPc, emitted, fin, result, crashes >>

\* start() while the loop is running: throws 'BatchedMigrationsRunner is
\* already running' and starts nothing.
StartRejected(p) ==
  /\ running[p]
  /\ result' = Outcome("AlreadyRunning")
  /\ UNCHANGED << options, defs, rows, calls, locks, loopVars, fin, crashes >>

\* A loop that never looks at the abort signal.
LoopTopNoAbortCheck(p) ==
  /\ pc[p] = "top"
  /\ pc' = [pc EXCEPT ![p] = "poll"]
  /\ emitted' = [emitted EXCEPT ![p] = 0]
  /\ UNCHANGED << options, defs, rows, calls, locks, mig, batch, aborted,
                  running, stopPc, fin, result, crashes >>

\* Top of the while loop: the abort check, then maybePerformWork is called.
LoopTop(p) ==
  /\ pc[p] = "top"
  /\ IF aborted[p]
       THEN /\ running' = [running EXCEPT ![p] = FALSE]
            /\ pc' = [pc EXCEPT ![p] = "stopped"]
            /\ UNCHANGED emitted
       ELSE /\ pc' = [pc EXCEPT ![p] = "poll"]
            /\ emitted' = [emitted EXCEPT ![p] = 0]
            /\ UNCHANGED running
  /\ UNCHANGED << options, defs, rows, calls, locks, mig, batch, aborted,
                  stopPc, fin, result, crashes >>

\* A loop for which a migration without a file on this process is an error.
PollUnknownIsError(p) ==
  LET id == RunnableCandidate(rows, options[p].project) IN
  /\ pc[p] = "poll"
  /\ IF id = 0
       THEN /\ pc' = [pc EXCEPT ![p] = "sleep"]
            /\ UNCHANGED << rows, mig, emitted >>
       ELSE /\ rows' = UpdateStatus(rows, id, "running")
            /\ IF getMigrationForIdentifier(p, rows[id].timestamp) = NoFile
                 THEN /\ pc' = [pc EXCEPT ![p] = "sleep"]
                      /\ emitted' = [emitted EXCEPT ![p] = 1]
                      /\ UNCHANGED mig
                 ELSE /\ pc' = [pc EXCEPT ![p] = "lock"]
                      /\ mig' = [mig EXCEPT ![p] = id]
                      /\ UNCHANGED emitted
  /\ UNCHANGED << options, defs, calls, locks, batch, aborted, running,
                  stopPc, fin, result, crashes >>

\* A round that looks for the file before it claims the migration.
PollChecksFileFirst(p) ==
  LET id == RunnableCandidate(rows, options[p].project) IN
  /\ pc[p] = "poll"
  /\ IF id = 0
       THEN /\ pc' = [pc EXCEPT ![p] = "sleep"]
            /\ UNCHANGED << rows, mig >>
       ELSE IF getMigrationForIdentifier(p, rows[id].timestamp) = NoFile
              THEN /\ pc' = [pc EXCEPT ![p] = "sleep"]
                   /\ UNCHANGED << rows, mig >>
              ELSE /\ rows' = UpdateStatus(rows, id, "running")
                   /\ pc' = [pc EXCEPT ![p] = "lock"]
                   /\ mig' = [mig EXCEPT ![p] = id]
  /\ UNCHANGED << options, defs, calls, locks, batch, aborted, running,
                  stopPc, emitted, fin, result, crashes >>

\* getOrStartMigration (one transaction), then the lookup of the file.
Poll(p) ==
  LET id == RunnableCandidate(rows, options[p].project) IN
  /\ pc[p] = "poll"
  /\ IF id = 0
       THEN /\ pc' = [pc EXCEPT ![p] = "sleep"]
            /\ UNCHANGED << rows, mig >>
       ELSE /\ rows' = UpdateStatus(rows, id, "running")
            /\ IF getMigrationForIdentifier(p, rows[id].timestamp) = NoFile
                 THEN /\ pc' = [pc EXCEPT ![p] = "sleep"]
                      /\ UNCHANGED mig
                 ELSE /\ pc' = [pc EXCEPT ![p] = "lock"]
                      /\ mig' = [mig EXCEPT ![p] = id]
  /\ UNCHANGED << options, defs, calls, locks, batch, aborted, running,
                  stopPc, emitted, fin, result, crashes >>

\* A loop without the try / catch around maybePerformWork: the rejection
\* ends loop().
PollFailsEndsLoop(p) ==
  /\ pc[p] = "poll"
  /\ emitted' = [emitted EXCEPT ![p] = 1]
  /\ pc' = [pc EXCEPT ![p] = "stopped"]
  /\ UNCHANGED << options, defs, rows, calls, locks, mig, batch, aborted,
                  running, stopPc, fin, result, crashes >>

\* The store query of a round throws: loop() emits 'error' and sleeps.
PollFails(p) ==
  /\ pc[p] = "poll"
  /\ emitted' = [emitted EXCEPT ![p] = 1]
  /\ pc' = [pc EXCEPT ![p] = "sleep"]
  /\ UNCHANGED << options, defs, rows, calls, locks, mig, batch, aborted,
                  running, stopPc, fin, result, crashes >>

\* A loop that polls again at once when the lock is held elsewhere.
TryLockHeldPollsAtOnce(p) ==
  LET name == lockNameForTimestamp(p, rows[mig[p]].timestamp) IN
  /\ pc[p] = "lock"
  /\ IF LockHeld(name)
       THEN /\ pc' = [pc EXCEPT ![p] = "top"]
            /\ mig' = [mig EXCEPT ![p] = 0]
            /\ UNCHANGED locks
       ELSE /\ locks' = locks \cup { << name, p >> }
            /\ pc' = [pc EXCEPT ![p] = "run"]
            /\ UNCHANGED mig
  /\ UNCHANGED << options, defs, rows, calls, batch, aborted, running,
                  stopPc, emitted, fin, result, crashes >>

\* A loop for which a lock held elsewhere is an error.
TryLockThrowsWhenHeld(p) ==
  LET name == lockNameForTimestamp(p, rows[mig[p]].timestamp) IN
  /\ pc[p] = "lock"
  /\ IF LockHeld(name)
       THEN /\ pc' = [pc EXCEPT ![p] = "sleep"]
            /\ mig' = [mig EXCEPT ![p] = 0]
            /\ emitted' = [emitted EXCEPT ![p] = 1]
            /\ UNCHANGED locks
       ELSE /\ locks' = locks \cup { << name, p >> }
            /\ pc' = [pc EXCEPT ![p] = "run"]
            /\ UNCHANGED << mig, emitted >>
  /\ UNCHANGED << options, defs, rows, calls, batch, aborted, running,
                  stopPc, fin, result, crashes >>

\* tryWithLock(lockNameForTimestamp(...), callback)
TryLock(p) ==
  LET name == lockNameForTimestamp(p, rows[mig[p]].timestamp) IN
  /\ pc[p] = "lock"
  /\ IF LockHeld(name)
       THEN /\ pc' = [pc EXCEPT ![p] = "sleep"]
            /\ mig' = [mig EXCEPT ![p] = 0]
            /\ UNCHANGED locks
       ELSE /\ locks' = locks \cup { << name, p >> }
            /\ pc' = [pc EXCEPT ![p] = "run"]
            /\ UNCHANGED mig
  /\ UNCHANGED << options, defs, rows, calls, batch, aborted, running,
                  stopPc, emitted, fin, result, crashes >>

\* The lock is free but loadMigrationClass throws inside the callback (a
\* broken definition file): tryWithLock releases the lock and rethrows,
\* maybePerformWork rejects, loop() emits 'error' and sleeps.
LoadFails(p) ==
  /\ pc[p] = "lock"
  /\ ~LockHeld(lockNameForTimestamp(p, rows[mig[p]].timestamp))
  /\ defs[rows[mig[p]].timestamp].fails
  /\ emitted' = [emitted EXCEPT ![p] = 1]
  /\ pc' = [pc EXCEPT ![p] = "sleep"]
  /\ mig' = [mig EXCEPT ![p] = 0]
  /\ UNCHANGED << options, defs, rows, calls, locks, batch, aborted, running,
                  stopPc, fin, result, crashes >>

\* The round ends: tryWithLock releases the lock, maybePerformWork returns
\* true and the loop goes to its top without sleeping.
EndRound(p) ==
  /\ locks' = { l \in locks : l[2] # p }
  /\ pc' = [pc EXCEPT ![p] = "top"]
  /\ mig' = [mig EXCEPT ![p] = 0]
  /\ batch' = [batch EXCEPT ![p] = <<>>]

\* runner.run({signal, durationMs}): before a batch, the signal or the time
\* budget stops the run with the status left as it is.
RunYield(p) ==
  /\ pc[p] = "run"
  /\ EndRound(p)
  /\ UNCHANGED << options, defs, rows, calls, aborted, running, stopPc,
                  emitted, fin, result, crashes >>

\* A runner that does not look at the signal before a batch.
RunCheckIgnoresSignal(p) ==
  LET bounds == NextBatchBounds(rows[mig[p]]) IN
  /\ pc[p] = "run"
  /\ IF bounds = <<>>
       THEN /\ rows' = UpdateStatus(rows, mig[p], "succeeded")
            /\ EndRound(p)
       ELSE /\ batch' = [batch EXCEPT ![p] = bounds]
            /\ pc' = [pc EXCEPT ![p] = "batch"]
            /\ UNCHANGED << rows, locks, mig >>
  /\ UNCHANGED << options, defs, calls, aborted, running, stopPc, emitted,
                  fin, result, crashes >>

\* runner.run: the signal is clear and the budget not exhausted; read the
\* cursor and start the next batch, or mark the migration succeeded.
RunCheck(p) ==
  LET bounds == NextBatchBounds(rows[mig[p]]) IN
  /\ pc[p] = "run"
  /\ ~aborted[p]
  /\ IF bounds = <<>>
       THEN /\ rows' = UpdateStatus(rows, mig[p], "succeeded")
            /\ EndRound(p)
       ELSE /\ batch' = [batch EXCEPT ![p] = bounds]
            /\ pc' = [pc EXCEPT ![p] = "batch"]
            /\ UNCHANGED << rows, locks, mig >>
  /\ UNCHANGED << options, defs, calls, aborted, running, stopPc, emitted,
                  fin, result, crashes >>

\* migration.runBatch(start, end) returns.
RunBatch(p) ==
  /\ pc[p] = "batch"
  /\ calls' = [calls EXCEPT ![mig[p]] = Append(@, batch[p])]
  /\ pc' = [pc EXCEPT ![p] = "persist"]
  /\ UNCHANGED << options, defs, rows, locks, mig, batch, aborted, running,
                  stopPc, emitted, fin, result, crashes >>

\* A round that keeps its lock when the batch function throws.
RunBatchFailsKeepsLock(p) ==
  /\ pc[p] = "batch"
  /\ defs[rows[mig[p]].timestamp].fails
  /\ emitted' = [emitted EXCEPT ![p] = 1]
  /\ pc' = [pc EXCEPT ![p] = "top"]
  /\ mig' = [mig EXCEPT ![p] = 0]
  /\ batch' = [batch EXCEPT ![p] = <<>>]
  /\ UNCHANGED << options, defs, rows, calls, locks, aborted, running,
                  stopPc, fin, result, crashes >>

\* A callback without the try / catch around runner.run: the error leaves
\* maybePerformWork and it is the loop that emits it and sleeps.
RunBatchFailsRethrown(p) ==
  /\ pc[p] = "batch"
  /\ defs[rows[mig[p]].timestamp].fails
  /\ emitted' = [emitted EXCEPT ![p] = 1]
  /\ locks' = { l \in locks : l[2] # p }
  /\ pc' = [pc EXCEPT ![p] = "sleep"]
  /\ mig' = [mig EXCEPT ![p] = 0]
  /\ batch' = [batch EXCEPT ![p] = <<>>]
  /\ UNCHANGED << options, defs, rows, calls, aborted, running, stopPc,
                  fin, result, crashes >>

\* A loop whose catch marks the migration failed.
RunBatchFailsMarksFailed(p) ==
  /\ pc[p] = "batch"
  /\ defs[rows[mig[p]].timestamp].fails
  /\ emitted' = [emitted EXCEPT ![p] = 1]
  /\ rows' = UpdateStatus(rows, mig[p], "failed")
  /\ EndRound(p)
  /\ UNCHANGED << options, defs, calls, aborted, running, stopPc,
                  fin, result, crashes >>

\* migration.runBatch throws: run() rethrows, maybePerformWork emits 'error'.
RunBatchFails(p) ==
  /\ pc[p] = "batch"
  /\ defs[rows[mig[p]].timestamp].fails
  /\ emitted' = [emitted EXCEPT ![p] = 1]
  /\ EndRound(p)
  /\ UNCHANGED << options, defs, rows, calls, aborted, running, stopPc,
                  fin, result, crashes >>

\* The checkpoint: the new cursor is persisted.
Persist(p) ==
  /\ pc[p] = "persist"
  /\ rows' = [rows EXCEPT ![mig[p]].cursor = batch[p][2]]
  /\ pc' = [pc EXCEPT ![p] = "run"]
  /\ batch' = [batch EXCEPT ![p] = <<>>]
  /\ UNCHANGED << options, defs, calls, locks, mig, aborted, running, stopPc,
                  emitted, fin, result, crashes >>

\* A sleep that only the abort signal ends.
WakeOnlyOnAbort(p) ==
  /\ pc[p] = "sleep"
  /\ aborted[p]
  /\ pc' = [pc EXCEPT ![p] = "top"]
  /\ UNCHANGED << options, defs, rows, calls, locks, mig, batch, aborted,
                  running, stopPc, emitted, fin, result, crashes >>

\* The idle sleep ends, by its timer or by the abort signal.
Wake(p) ==
  /\ pc[p] = "sleep"
  /\ pc' = [pc EXCEPT ![p] = "top"]
  /\ UNCHANGED << options, defs, rows, calls, locks, mig, batch, aborted,
                  running, stopPc, emitted, fin, result, crashes >>

\* stop(): abort, then spin until running is false.
StopCall(p) ==
  /\ stopPc[p] = "none"
  /\ aborted' = [aborted EXCEPT ![p] = TRUE]
  /\ stopPc' = [stopPc EXCEPT ![p] = "spin"]
  /\ UNCHANGED << options, defs, rows, calls, locks, pc, mig, batch, running,
                  emitted, fin, result, crashes >>

\* stop() that does not wait for the loop.
StopReturnAtOnce(p) ==
  /\ stopPc[p] = "spin"
  /\ stopPc' = [stopPc EXCEPT ![p] = "returned"]
  /\ UNCHANGED << options, defs, rows, calls, locks, pc, mig, batch, aborted,
                  running, emitted, fin, result, crashes >>

StopReturn(p) ==
  /\ stopPc[p] = "spin"
  /\ ~running[p]
  /\ stopPc' = [stopPc EXCEPT ![p] = "returned"]
  /\ UNCHANGED << options, defs, rows, calls, locks, pc, mig, batch, aborted,
                  running, emitted, fin, result, crashes >>

\* ------------------------------------------------------------ finalize

\* What a finalize call records of its own history (start: the cursor when
\* its runner is constructed; ran: the batches it has run) when call
\* outcomes are observed: like `result`, kept constant where they are not.
Observed(x, dflt) == IF result = "unobserved" THEN dflt ELSE x

\* After the status is (or already was) finalizing: resolve the file, then
\* construct the runner; an unknown identifier throws.
FinalizeResolve(p, identifier, id) ==
  IF getMigrationForIdentifier(p, identifier) = NoFile
    THEN /\ fin' = [fin EXCEPT ![p] = FinIdle]
         /\ result' = Outcome("NotFound")
    ELSE /\ fin' = [fin EXCEPT ![p] =
                      [pc |-> "run", identifier |-> identifier, mig |-> id,
                       batch |-> <<>>, start |-> Observed(rows[id].cursor, 0),
                       ran |-> <<>>]]
         /\ UNCHANGED result

\* finalize without the early return on a succeeded row.
FinalizeBeginNoShortcut(p, identifier) ==
  LET found == SelectForTimestamp(rows, options[p].project, SplitFirst(identifier)) IN
  /\ fin[p].pc = "none"
  /\ IF found = {}
       THEN /\ result' = Outcome("NotFound")
            /\ UNCHANGED fin
       ELSE LET id == CHOOSE i \in found : TRUE IN
            IF rows[id].status # "finalizing"
              THEN /\ fin' = [fin EXCEPT ![p] =
                                [pc |-> "mark", identifier |-> identifier,
                                 mig |-> id, batch |-> <<>>, start |-> 0,
                                 ran |-> <<>>]]
                   /\ UNCHANGED result
              ELSE FinalizeResolve(p, identifier, id)
  /\ UNCHANGED << options, defs, rows, calls, locks, loopVars, crashes >>

\* finalizeBatchedMigration(identifier) through process p: the first
\* selectBatchedMigrationForTimestamp and the test of its status.
FinalizeBegin(p, identifier) ==
  LET found == SelectForTimestamp(rows, options[p].project, SplitFirst(identifier)) IN
  /\ fin[p].pc = "none"
  /\ IF found = {}
       THEN /\ result' = Outcome("NotFound")
            /\ UNCHANGED fin
       ELSE LET id == CHOOSE i \in found : TRUE IN
            IF rows[id].status = "succeeded"
              THEN /\ result' = Outcome("ok")
                   /\ UNCHANGED fin
              ELSE IF rows[id].status # "finalizing"
                THEN /\ fin' = [fin EXCEPT ![p] =
                                  [pc |-> "mark", identifier |-> identifier,
                                   mig |-> id, batch |-> <<>>, start |-> 0,
                                   ran |-> <<>>]]
                     /\ UNCHANGED result
                ELSE FinalizeResolve(p, identifier, id)
  /\ UNCHANGED << options, defs, rows, calls, locks, loopVars, crashes >>

\* finalize that resolves the definition before it writes the status.
FinalizeMarkResolvesFirst(p) ==
  /\ fin[p].pc = "mark"
  /\ IF getMigrationForIdentifier(p, fin[p].identifier) = NoFile
       THEN /\ fin' = [fin EXCEPT ![p] = FinIdle]
            /\ result' = Outcome("NotFound")
            /\ UNCHANGED rows
       ELSE /\ rows' = UpdateStatus(rows, fin[p].mig, "finalizing")
            /\ fin' = [fin EXCEPT ![p].pc = "run",
                                  ![p].start = Observed(rows[fin[p].mig].cursor, 0)]
            /\ UNCHANGED result
  /\ UNCHANGED << options, defs, calls, locks, loopVars, crashes >>

\* updateBatchedMigrationStatus(migration.id, 'finalizing')
FinalizeMark(p) ==
  /\ fin[p].pc = "mark"
  /\ rows' = UpdateStatus(rows, fin[p].mig, "finalizing")
  /\ IF getMigrationForIdentifier(p, fin[p].identifier) = NoFile
       THEN /\ fin' = [fin EXCEPT ![p] = FinIdle]
            /\ result' = Outcome("NotFound")
       ELSE /\ fin' = [fin EXCEPT ![p].pc = "run",
                                  ![p].start = Observed(rows[fin[p].mig].cursor, 0)]
            /\ UNCHANGED result
  /\ UNCHANGED << options, defs, calls, locks, loopVars, crashes >>

\* runner.run() without signal or budget, and without any lock: read the
\* cursor and start the next batch, or mark the migration succeeded.
FinalizeRunCheck(p) ==
  LET bounds == NextBatchBounds(rows[fin[p].mig]) IN
  /\ fin[p].pc = "run"
  /\ IF bounds = <<>>
       THEN /\ rows' = UpdateStatus(rows, fin[p].mig, "succeeded")
            /\ fin' = [fin EXCEPT ![p].pc = "reselect"]
       ELSE /\ fin' = [fin EXCEPT ![p].pc = "batch", ![p].batch = bounds]
            /\ UNCHANGED rows
  /\ UNCHANGED << options, defs, calls, locks, loopVars, result, crashes >>

FinalizeRunBatch(p) ==
  /\ fin[p].pc = "batch"
  /\ calls' = [calls EXCEPT ![fin[p].mig] = Append(@, fin[p].batch)]
  /\ fin' = [fin EXCEPT ![p].pc = "persist",
                        ![p].ran = Observed(Append(@, fin[p].batch), <<>>)]
  /\ UNCHANGED << options, defs, rows, locks, loopVars, result, crashes >>

\* runBatch throws: nothing catches it, finalize fails to its caller.
FinalizeRunBatchFails(p) ==
  /\ fin[p].pc = "batch"
  /\ defs[rows[fin[p].mig].timestamp].fails
  /\ fin' = [fin EXCEPT ![p] = FinIdle]
  /\ result' = Outcome("BatchFailure")
  /\ UNCHANGED << options, defs, rows, calls, locks, loopVars, crashes >>

FinalizePersist(p) ==
  /\ fin[p].pc = "persist"
  /\ rows' = [rows EXCEPT ![fin[p].mig].cursor = fin[p].batch[2]]
  /\ fin' = [fin EXCEPT ![p].pc = "run", ![p].batch = <<>>]
  /\ UNCHANGED << options, defs, calls, locks, loopVars, result, crashes >>

\* finalize that returns without looking at the status it re-read.
FinalizeEndAlwaysOk(p) ==
  /\ fin[p].pc = "reselect"
  /\ result' = Outcome("ok")
  /\ fin' = [fin EXCEPT ![p] = FinIdle]
  /\ UNCHANGED << options, defs, rows, calls, locks, loopVars, crashes >>

\* The second select and the test that the status is succeeded.
FinalizeEnd(p) ==
  /\ fin[p].pc = "reselect"
  /\ result' = Outcome(IF rows[fin[p].mig].status = "succeeded"
                         THEN "ok" ELSE "InconsistentState")
  /\ fin' = [fin EXCEPT ![p] = FinIdle]
  /\ UNCHANGED << options, defs, rows, calls, locks, loopVars, crashes >>

\* --------------------------------------------------------------- crash

Active(p) == pc[p] # "idle" \/ stopPc[p] # "none" \/ fin[p].pc # "none"

\* Process p dies and is restarted: its loop, its stop() and its finalize
\* call are gone, a fresh runner is constructed, and the lock service
\* releases what it held.  The record store keeps what was committed.
Crash(p) ==
  /\ crashes < MaxCrashes
  /\ Active(p)
  /\ crashes' = crashes + 1
  /\ locks' = { l \in locks : l[2] # p }
  /\ pc' = [pc EXCEPT ![p] = "idle"]
  /\ mig' = [mig EXCEPT ![p] = 0]
  /\ batch' = [batch EXCEPT ![p] = <<>>]
  /\ aborted' = [aborted EXCEPT ![p] = FALSE]
  /\ running' = [running EXCEPT ![p] = FALSE]
  /\ stopPc' = [stopPc EXCEPT ![p] = "none"]
  /\ emitted' = [emitted EXCEPT ![p] = 0]
  /\ fin' = [fin EXCEPT ![p] = FinIdle]
  /\ UNCHANGED << options, defs, rows, calls, result >>

\* ---------------------------------------------------------------- Spec

\* Both processes are deployed with both migration files.
OptionsBoth ==
  [ p \in Procs |-> [ project |-> "A", files |-> {T1, T2} ] ]

\* Default minimum and batch size with max 1500 (batches [1, 1000] and
\* [1001, 1500]), or a two-batch range whose batches may throw.
DefsMain ==
  { [ t \in Timestamps |-> d ] :
      d \in { Def("20_backfill", Param(Absent, Val(1500), Absent), FALSE),
              Def("20_backfill", Param(Val(2), Val(3), Val(1)), TRUE) } }

Init ==
  /\ options = OptionsBoth
  /\ defs \in DefsMain
  /\ result = "unobserved"
  /\ InitRest

\* One scheduling loop, without stop().
Loop(p) ==
  \/ Start(p)
  \/ LoopTop(p)
  \/ Poll(p)
  \/ PollFails(p)
  \/ TryLock(p)
  \/ RunYield(p)
  \/ RunCheck(p)
  \/ RunBatch(p)
  \/ RunBatchFails(p)
  \/ Persist(p)
  \/ Wake(p)

\* The steps of a finalize call in flight through p.
FinalizeRun(p) ==
  \/ FinalizeMark(p)
  \/ FinalizeRunCheck(p)
  \/ FinalizeRunBatch(p)
  \/ FinalizeRunBatchFails(p)
  \/ FinalizePersist(p)
  \/ FinalizeEnd(p)

\* The operator makes one finalize call at a time.
FinalizeBeginAlone(p, identifier) ==
  /\ \A q \in Procs : fin[q].pc = "none"
  /\ FinalizeBegin(p, identifier)

\* Two processes schedule, enqueue and finalize migration T1, and may crash.
Next ==
  \/ \E p \in Procs, identifier \in {T1 \o <<"_", "a">>, <<"2">>} : Enqueue(p, identifier)
  \/ \E p \in Procs : Loop(p)
  \/ \E p \in Procs, identifier \in {T1, <<"2">>} : FinalizeBeginAlone(p, identifier)
  \/ \E p \in Procs : FinalizeRun(p)
  \/ \E p \in Procs : Crash(p)

Spec == Init /\ [][Next]_vars

\* --------------------------------------------------------- SpecEnqueue

\* p2 has not been deployed with migration T2 yet.
OptionsStaggered ==
  [ p \in Procs |->
      [ project |-> "A",
        files |-> IF p = "p1" THEN {T1, T2} ELSE {T1} ] ]

\* What getParameters() may return: each of min and batchSize given, null or
\* absent; max given (also below min), null or absent; and the scenario of
\* the documentation (min 1, max 2500, default batch size).
ParamChoices ==
  { Param(min, max, batchSize) :
      min \in {Absent, Null, Val(2)},
      max \in {Null, Absent, Val(5), Val(1)},
      batchSize \in {Absent, Val(2)} }
  \cup { Param(Val(1), Val(2500), Absent) }

DefsEnqueue ==
  { [ t \in Timestamps |->
        IF t = T1 THEN Def("20_backfill", prm, FALSE)
                  ELSE Def("21_b", Param(Val(2), Val(5), Val(2)), FALSE) ] :
      prm \in ParamChoices }

InitEnqueue ==
  /\ options = OptionsStaggered
  /\ defs \in DefsEnqueue
  /\ result = "none"
  /\ InitRest

\* Loops whose batches never throw.
LoopNoFailure(p) ==
  \/ Start(p)
  \/ LoopTop(p)
  \/ Poll(p)
  \/ TryLock(p)
  \/ RunYield(p)
  \/ RunCheck(p)
  \/ RunBatch(p)
  \/ Persist(p)
  \/ Wake(p)

\* Any process enqueues any identifier at any time, with the outcome of each
\* call observed, while the loops schedule what was enqueued.
NextEnqueue ==
  \/ \E p \in Procs, identifier \in Identifiers : Enqueue(p, identifier)
  \/ \E p \in Procs : LoopNoFailure(p)

SpecEnqueue == InitEnqueue /\ [][NextEnqueue]_vars

\* ------------------------------------------------------- SpecPollTx

\* select_or_start_running_migration seen as the transaction it is: it takes
\* the row locks of the project's rows and reads the candidate (PollBegin),
\* and later writes the status and commits, which releases the row locks
\* (PollCommit).  Poll above is the two steps taken at once.

RowsLockedNever(p) == FALSE

\* Another process has the transaction open on the rows of p's project.
RowsLocked(p) ==
  \E q \in Procs \ {p} :
    /\ options[q].project = options[p].project
    /\ pc[q] \in {"claiming", "resuming"}

PollBegin(p) ==
  LET id == RunnableCandidate(rows, options[p].project) IN
  /\ pc[p] = "poll"
  /\ ~RowsLocked(p)
  /\ IF id = 0
       THEN /\ pc' = [pc EXCEPT ![p] = "sleep"]
            /\ UNCHANGED mig
       ELSE /\ pc' = [pc EXCEPT ![p] =
                        IF rows[id].status = "pending" THEN "claiming" ELSE "resuming"]
            /\ mig' = [mig EXCEPT ![p] = id]
  /\ UNCHANGED << options, defs, rows, calls, locks, batch, aborted, running,
                  stopPc, emitted, fin, result, crashes >>

PollCommit(p) ==
  /\ pc[p] \in {"claiming", "resuming"}
  /\ rows' = IF pc[p] = "claiming" THEN UpdateStatus(rows, mig[p], "running") ELSE rows
  /\ IF getMigrationForIdentifier(p, rows[mig[p]].timestamp) = NoFile
       THEN /\ pc' = [pc EXCEPT ![p] = "sleep"]
            /\ mig' = [mig EXCEPT ![p] = 0]
       ELSE /\ pc' = [pc EXCEPT ![p] = "lock"]
            /\ UNCHANGED mig
  /\ UNCHANGED << options, defs, calls, locks, batch, aborted, running,
                  stopPc, emitted, fin, result, crashes >>

\* The scheduling loop with the poll in two steps, without failures.
LoopTx(p) ==
  \/ Start(p)
  \/ LoopTop(p)
  \/ PollBegin(p)
  \/ PollCommit(p)
  \/ TryLock(p)
  \/ RunYield(p)
  \/ RunCheck(p)
  \/ RunBatch(p)
  \/ Persist(p)
  \/ Wake(p)

NextPollTx ==
  \/ \E p \in Procs, identifier \in {T1 \o <<"_", "a">>, T2} : Enqueue(p, identifier)
  \/ \E p \in Procs : LoopTx(p)

SpecPollTx == Init /\ [][NextPollTx]_vars

\* ------------------------------------------------------- SpecSelect

\* How many rows the stores of SpecSelect hold at most.
MaxRows == 2

Statuses == {"pending", "running", "paused", "finalizing", "succeeded", "failed"}

Projects == {"A", "B"}

\* A row of the two-batch migration [2, 3] in the given status, its cursor at
\* the end of the range when succeeded and before the range otherwise.
StoredRow(id, project, timestamp, status) ==
  [ id |-> id,
    project |-> project,
    filename |-> "20_backfill",
    timestamp |-> timestamp,
    batch_size |-> 1,
    min_value |-> 2,
    max_value |-> 3,
    status |-> status,
    cursor |-> IF status = "succeeded" THEN 3 ELSE 1 ]

\* The stores of at most MaxRows rows of any project and status that respect
\* the unique key (project, timestamp).
StoresSelect ==
  UNION { { [ i \in 1 .. n |-> StoredRow(i, f[i][1], f[i][2], f[i][3]) ] :
              f \in { g \in [ 1 .. n -> Projects \X Timestamps \X Statuses ] :
                        \A i, j \in 1 .. n :
                          g[i][1] = g[j][1] /\ g[i][2] = g[j][2] => i = j } } :
          n \in 0 .. MaxRows }

\* One process per project, each deployed with both migration files.
OptionsPerProject ==
  [ p \in Procs |-> [ project |-> IF p = "p1" THEN "A" ELSE "B",
                      files |-> {T1, T2} ] ]

InitSelect ==
  /\ options = OptionsPerProject
  /\ defs = [ t \in Timestamps |->
                Def("20_backfill", Param(Val(2), Val(3), Val(1)), FALSE) ]
  /\ rows \in StoresSelect
  /\ calls = [ i \in 1 .. Len(rows) |-> <<>> ]
  /\ result = "unobserved"
  /\ InitProcs

\* Rounds that poll, take the lock and give it back before the first batch.
LoopSelect(p) ==
  \/ Start(p)
  \/ LoopTop(p)
  \/ Poll(p)
  \/ TryLock(p)
  \/ RunYield(p)
  \/ Wake(p)

NextSelect == \E p \in Procs : LoopSelect(p)

SpecSelect == InitSelect /\ [][NextSelect]_vars

\* ------------------------------------------------------ SpecFinalize

\* What migration T1 looks like after a scheduling loop has started it, run
\* and persisted its first batch and then gone away: status running, no
\* worker.  The store holding it, and its log of batch calls.
StuckRow ==
  LET row == InsertedRow(<<>>, EnqueueRecord("p1", T1, defs[T1].params))
  IN  [ row EXCEPT !.status = "running", !.cursor = NextBatchBounds(row)[2] ]

StuckCalls ==
  LET row == InsertedRow(<<>>, EnqueueRecord("p1", T1, defs[T1].params))
  IN  << << NextBatchBounds(row) >> >>

\* Call outcomes are observed.  The store is empty or holds the stuck
\* migration.
InitFinalize ==
  /\ options = OptionsBoth
  /\ defs \in DefsMain
  /\ result = "none"
  /\ \/ rows = <<>> /\ calls = <<>>
     \/ rows = << StuckRow >> /\ calls = StuckCalls
  /\ InitProcs

\* Operators enqueue T1 and finalize it through either process, also with
\* two calls in flight at once.
NextFinalize ==
  \/ \E p \in Procs : Enqueue(p, T1 \o <<"_", "a">>)
  \/ \E p \in Procs, identifier \in {T1, <<"2">>} : FinalizeBegin(p, identifier)
  \/ \E p \in Procs : FinalizeRun(p)

SpecFinalize == InitFinalize /\ [][NextFinalize]_vars

\* ---------------------------------------------------------- SpecStop

\* One step of the started loop of p, failures included.
LoopStep(p) ==
  \/ LoopTop(p)
  \/ Poll(p)
  \/ PollFails(p)
  \/ TryLock(p)
  \/ LoadFails(p)
  \/ RunYield(p)
  \/ RunCheck(p)
  \/ RunBatch(p)
  \/ RunBatchFails(p)
  \/ Persist(p)
  \/ Wake(p)

\* Two processes enqueue T1, start their loops and stop them.
NextStop ==
  \/ \E p \in Procs : Enqueue(p, T1 \o <<"_", "a">>)
  \/ \E p \in Procs : Start(p)
  \/ \E p \in Procs : LoopStep(p)
  \/ \E p \in Procs : StopCall(p)
  \/ \E p \in Procs : StopReturn(p)

SpecStop == Init /\ [][NextStop]_vars

\* The event loop of a process runs every continuation that is ready: a
\* started loop takes its next step, and the spin of stop() sees running
\* false once it is.
SpecStopFair ==
  /\ SpecStop
  /\ \A p \in Procs : WF_vars(LoopStep(p)) /\ WF_vars(StopReturn(p))

\* ----------------------------------------------------------- SpecTwo

\* p1 is deployed with both migration files, p2 only with the file of T2.
OptionsNewer ==
  [ p \in Procs |-> [ project |-> "A",
                      files |-> IF p = "p1" THEN {T1, T2} ELSE {T2} ] ]

\* The batch function of T1 throws on every call, that of T2 never does.
DefsBroken ==
  [ t \in Timestamps |->
      Def(IF t = T1 THEN "20_broken" ELSE "21_backfill",
          Param(Val(2), Val(3), Val(1)), t = T1) ]

InitTwo ==
  /\ options = OptionsNewer
  /\ defs = DefsBroken
  /\ result = "unobserved"
  /\ InitRest

\* runBatch returns: in this world only for a definition that does not throw.
RunBatchReturns(p) ==
  /\ pc[p] = "batch"
  /\ ~defs[rows[mig[p]].timestamp].fails
  /\ RunBatch(p)

\* One step of the started loop of p where a broken definition always throws.
LoopStepTwo(p) ==
  \/ LoopTop(p)
  \/ Poll(p)
  \/ TryLock(p)
  \/ RunYield(p)
  \/ RunCheck(p)
  \/ RunBatchReturns(p)
  \/ RunBatchFails(p)
  \/ Persist(p)
  \/ Wake(p)

\* Both migrations are enqueued through p1, in either order, and both
\* processes run their loops.
NextTwo ==
  \/ \E identifier \in {T1 \o <<"_", "a">>, T2 \o <<"_", "a">>} : Enqueue("p1", identifier)
  \/ \E p \in Procs : Start(p)
  \/ \E p \in Procs : LoopStepTwo(p)

SpecTwo == InitTwo /\ [][NextTwo]_vars

\* The event loop of a process runs every continuation that is ready, and
\* the 60 s budget of a round is not always spent before its first batch: a
\* loop that keeps entering the runner keeps starting batches.
SpecTwoFair ==
  /\ SpecTwo
  /\ \A p \in Procs : WF_vars(LoopStepTwo(p)) /\ SF_vars(RunCheck(p))

\* ------------------------------------------------------- SpecRestart

\* Definitions whose batch function never throws: the default minimum and
\* batch size with max 1500, or the range [2, 3] in batches of one.
DefsSound ==
  { [ t \in Timestamps |-> d ] :
      d \in { Def("20_backfill", Param(Absent, Val(1500), Absent), FALSE),
              Def("20_backfill", Param(Val(2), Val(3), Val(1)), FALSE) } }

InitRestart ==
  /\ options = OptionsBoth
  /\ defs \in DefsSound
  /\ result = "unobserved"
  /\ InitRest

\* Both migrations are enqueued, both processes run their loops, and a
\* process may crash and be restarted.
NextRestart ==
  \/ \E p \in Procs, identifier \in {T1 \o <<"_", "a">>, T2} : Enqueue(p, identifier)
  \/ \E p \in Procs : LoopNoFailure(p)
  \/ \E p \in Procs : Crash(p)

SpecRestart == InitRestart /\ [][NextRestart]_vars

\* A process that is up has its loop started (the server calls start() when
\* it boots), the event loop runs every continuation that is ready, and the
\* 60 s budget of a round is not always spent before its first batch.
SpecRestartFair ==
  /\ SpecRestart
  /\ \A p \in Procs : WF_vars(LoopNoFailure(p)) /\ SF_vars(RunCheck(p))

\* ------------------------------------------------------------ SpecMark
\* Finalize through a process that lacks the definition: migration 20 is in
\* the store in any status but finalizing with no batch run yet (succeeded:
\* with its range done), p1 is deployed with its file and p2 is not, and
\* either process is asked to finalize it.  Call outcomes are observed.

InitMark ==
  /\ options = OptionsNewer
  /\ defs = [ t \in Timestamps |->
                Def("20_backfill", Param(Val(2), Val(3), Val(1)), FALSE) ]
  /\ \E status \in Statuses \ {"finalizing"} :
       rows = << StoredRow(1, "A", T1, status) >>
  /\ calls = << << >> >>
  /\ result = "none"
  /\ InitProcs

\* The steps of a finalize call whose batches do not throw.
FinalizeRunNoFailure(p) ==
  \/ FinalizeMark(p)
  \/ FinalizeRunCheck(p)
  \/ FinalizeRunBatch(p)
  \/ FinalizePersist(p)
  \/ FinalizeEnd(p)

NextMark ==
  \/ \E p \in Procs, identifier \in {T1, T1 \o <<"_", "a">>} : FinalizeBegin(p, identifier)
  \/ \E p \in Procs : FinalizeRunNoFailure(p)

SpecMark == InitMark /\ [][NextMark]_vars

\* ------------------------------------------------------- SpecSingleton
\* The exported functions and the module's `runner` variable.  A process
\* whose `runner` is null has pc "null"; initBatchedMigrations constructs
\* the instance (pc "idle"), and stopBatchedMigrations discards it once
\* stop() has returned.

\* assertRunner(runner) throws 'Batched migrations not initialized': what a
\* call of start, enqueue, finalize or stop does before init (finalize with
\* a runner is left to SpecFinalize and Spec).
AssertRunnerThrows(p) ==
  /\ pc[p] = "null"
  /\ result' = Outcome("NotInitialized")
  /\ UNCHANGED << options, defs, rows, calls, locks, loopVars, fin, crashes >>

\* initBatchedMigrations(options)
InitBatchedMigrations(p) ==
  /\ IF pc[p] = "null"
       THEN /\ pc' = [pc EXCEPT ![p] = "idle"]
            /\ result' = Outcome("ok")
       ELSE /\ result' = Outcome("AlreadyInitialized")
            /\ UNCHANGED pc
  /\ UNCHANGED << options, defs, rows, calls, locks, mig, batch, aborted,
                  running, stopPc, emitted, fin, crashes >>

\* startBatchedMigrations() with a runner
StartBatchedMigrations(p) ==
  /\ pc[p] # "null"
  /\ Start(p) \/ StartRejected(p)

\* enqueueBatchedMigration(identifier) with a runner
EnqueueBatchedMigration(p, identifier) ==
  /\ pc[p] # "null"
  /\ Enqueue(p, identifier)

\* stopBatchedMigrations() with a runner: runner.stop() is called
StopBatchedMigrations(p) ==
  /\ pc[p] # "null"
  /\ StopCall(p)

\* ... and when stop() has returned, runner = null: the instance, with its
\* abort controller and running flag, is dropped.
StopBatchedMigrationsReturn(p) ==
  /\ stopPc[p] = "spin"
  /\ ~running[p]
  /\ pc' = [pc EXCEPT ![p] = "null"]
  /\ stopPc' = [stopPc EXCEPT ![p] = "none"]
  /\ aborted' = [aborted EXCEPT ![p] = FALSE]
  /\ emitted' = [emitted EXCEPT ![p] = 0]
  /\ result' = Outcome("ok")
  /\ UNCHANGED << options, defs, rows, calls, locks, mig, batch, running,
                  fin, crashes >>

InitSingleton ==
  /\ options = OptionsBoth
  /\ defs = [ t \in Timestamps |->
                Def("20_backfill", Param(Val(2), Val(3), Val(1)), FALSE) ]
  /\ rows = <<>>
  /\ calls = <<>>
  /\ locks = {}
  /\ pc = [p \in Procs |-> "null"]
  /\ mig = [p \in Procs |-> 0]
  /\ batch = [p \in Procs |-> <<>>]
  /\ aborted = [p \in Procs |-> FALSE]
  /\ running = [p \in Procs |-> FALSE]
  /\ stopPc = [p \in Procs |-> "none"]
  /\ emitted = [p \in Procs |-> 0]
  /\ fin = [p \in Procs |-> FinIdle]
  /\ result = "none"
  /\ crashes = 0

\* The steps of a started loop whose batches do not throw.
LoopRounds(p) ==
  \/ LoopTop(p)
  \/ Poll(p)
  \/ TryLock(p)
  \/ RunYield(p)
  \/ RunCheck(p)
  \/ RunBatch(p)
  \/ Persist(p)
  \/ Wake(p)

NextSingleton ==
  \/ \E p \in Procs : AssertRunnerThrows(p)
  \/ \E p \in Procs : InitBatchedMigrations(p)
  \/ \E p \in Procs : StartBatchedMigrations(p)
  \/ \E p \in Procs : EnqueueBatchedMigration(p, T1 \o <<"_", "a">>)
  \/ \E p \in Procs : StopBatchedMigrations(p)
  \/ \E p \in Procs : StopBatchedMigrationsReturn(p)
  \/ \E p \in Procs : LoopRounds(p)

SpecSingleton == InitSingleton /\ [][NextSingleton]_vars

\* ============================================================== claims

\* The name of the lock of row id for process p, written out.
MigrationLock(p, id) ==
  << "batched-migrations", options[p].project, rows[id].timestamp >>

\* Process p is in a batch of row id (runBatch started, cursor not yet
\* persisted), in its loop or in a finalize call made through it.
InBatch(p, id) ==
  \/ pc[p] \in {"batch", "persist"} /\ mig[p] = id
  \/ fin[p].pc \in {"batch", "persist"} /\ fin[p].mig = id

\* C1: at most one process is executing batches of a given migration, over
\* any interleaving of scheduling rounds and finalize calls.
C1_AtMostOneProcessInBatch ==
  \A id \in RowIds(rows) :
    \A p, q \in Procs : InBatch(p, id) /\ InBatch(q, id) => p = q

\* C2: among scheduling loops at most one holds the lock
\* batched-migrations:<project>:<timestamp> of a migration, and a loop is in
\* the batch runner only while it holds that lock.
C2_LoopsRunUnderTheLock ==
  /\ \A l1, l2 \in locks : l1[1] = l2[1] => l1 = l2
  /\ \A p \in Procs :
       pc[p] \in {"run", "batch", "persist"} =>
         << MigrationLock(p, mig[p]), p >> \in locks

\* C2 witness: one loop is in a batch under the lock while the other loop has
\* selected the same migration and is about to try the lock.
C2_Witness ==
  \E p, q \in Procs :
    /\ p # q
    /\ pc[p] = "batch"
    /\ pc[q] = "lock"
    /\ mig[q] = mig[p]
    /\ << MigrationLock(p, mig[p]), p >> \in locks

\* C3: finalize runs the batch runner only while holding the lock of the
\* migration.
C3_FinalizeRunsUnderTheLock ==
  \A p \in Procs :
    fin[p].pc \in {"run", "batch", "persist"} =>
      << MigrationLock(p, fin[p].mig), p >> \in locks

\* The ranges cover [min_value, max_value] exactly once, contiguously, in
\* increasing order, none larger than batch_size.
ExactCover(ranges, row) ==
  /\ Len(ranges) >= 1
  /\ ranges[1][1] = row.min_value
  /\ ranges[Len(ranges)][2] = row.max_value
  /\ \A k \in 1 .. Len(ranges) :
       /\ ranges[k][1] <= ranges[k][2]
       /\ ranges[k][2] - ranges[k][1] + 1 <= row.batch_size
  /\ \A k \in 1 .. Len(ranges) - 1 : ranges[k + 1][1] = ranges[k][2] + 1

\* C4: with no failing batch and no crash, the runBatch calls made until the
\* status is succeeded cover [min_value, max_value] exactly once.
C4_SucceededMeansExactCover ==
  \A id \in RowIds(rows) :
    ( /\ rows[id].status = "succeeded"
      /\ rows[id].min_value <= rows[id].max_value
      /\ rows[id].batch_size >= 1
      /\ ~defs[rows[id].timestamp].fails
      /\ crashes = 0 )
    => ExactCover(calls[id], rows[id])

\* C5: every step leaves each cursor within [min_value - 1, max_value] and
\* does not decrease it.
C5_CursorBoundedMonotone ==
  [][ \A id \in RowIds(rows) :
        /\ rows'[id].cursor >= rows[id].cursor
        /\ rows'[id].min_value - 1 <= rows'[id].cursor
        /\ rows'[id].cursor <= rows'[id].max_value ]_vars

\* C6: a migration whose getParameters() reports max null is stored as
\* succeeded and no runBatch is ever invoked for it.
C6_NullMaxIsSucceededWithoutBatches ==
  \A id \in RowIds(rows) :
    defs[rows[id].timestamp].params.max.kind = "null" =>
      rows[id].status = "succeeded" /\ calls[id] = <<>>

\* The table holds a row for the migration that identifier names for p.
AlreadyEnqueued(p, identifier) ==
  \E id \in RowIds(rows) :
    /\ rows[id].project = options[p].project
    /\ rows[id].timestamp = SplitFirst(identifier)

\* C7: enqueuing a migration whose max is given, known to the process and
\* not yet enqueued, returns after appending exactly one row; and a row
\* appended for such a migration is pending, with max_value = max,
\* min_value = min or else 1, and batch_size = batchSize or else 1000.
C7_EnqueueInsertsPendingWithDefaults ==
  [][ /\ \A p \in Procs, identifier \in Identifiers :
           ( /\ Enqueue(p, identifier)
             /\ SplitFirst(identifier) \in options[p].files
             /\ defs[SplitFirst(identifier)].params.max.kind = "value"
             /\ ~AlreadyEnqueued(p, identifier) )
           => /\ result' = "ok"
              /\ Len(rows') = Len(rows) + 1
              /\ rows'[Len(rows')].timestamp = SplitFirst(identifier)
              /\ rows'[Len(rows')].project = options[p].project
      /\ Len(rows') > Len(rows) =>
           LET r == rows'[Len(rows')]
               prm == defs[r.timestamp].params
           IN  prm.max.kind = "value" =>
                 /\ Len(rows') = Len(rows) + 1
                 /\ SubSeq(rows', 1, Len(rows)) = rows
                 /\ r.status = "pending"
                 /\ r.max_value = prm.max.v
                 /\ r.min_value = (IF prm.min.kind = "value" THEN prm.min.v ELSE 1)
                 /\ r.batch_size =
                      (IF prm.batchSize.kind = "value" THEN prm.batchSize.v ELSE 1000) ]_vars

\* C7 witness: an enqueue returned and the table holds a row inserted for
\* parameters with max given and min and batchSize left out.
C7_Witness ==
  /\ result = "ok"
  /\ \E id \in RowIds(rows) :
       LET prm == defs[rows[id].timestamp].params IN
       /\ prm.max.kind = "value"
       /\ prm.min.kind = "undefined"
       /\ prm.batchSize.kind = "undefined"

\* C8: no step changes a row whose status is succeeded.
C8_SucceededIsImmutable ==
  [][ \A id \in RowIds(rows) :
        rows[id].status = "succeeded" => rows'[id] = rows[id] ]_vars

\* C9: enqueuing a (project, timestamp) that has a row fails with
\* AlreadyExists and leaves the table as it was, and the table never holds
\* two rows of one (project, timestamp).
C9_DuplicateEnqueueRejected ==
  /\ [] ( \A i, j \in RowIds(rows) :
            ( rows[i].project = rows[j].project
              /\ rows[i].timestamp = rows[j].timestamp ) => i = j )
  /\ [][ \A p \in Procs, identifier \in Identifiers :
           ( /\ Enqueue(p, identifier)
             /\ SplitFirst(identifier) \in options[p].files
             /\ AlreadyEnqueued(p, identifier) )
           => result' = "AlreadyExists" /\ rows' = rows ]_vars

\* C9 witness: an enqueue was rejected as a duplicate.
C9_Witness == result = "AlreadyExists" /\ Len(rows) >= 1

\* C10: enqueuing an identifier whose leading timestamp names no migration
\* file of the process fails with NotFound and leaves the table as it was.
C10_UnknownIdentifierNotFound ==
  [][ \A p \in Procs, identifier \in Identifiers :
        ( /\ Enqueue(p, identifier)
          /\ SplitFirst(identifier) \notin options[p].files )
        => result' = "NotFound" /\ rows' = rows ]_vars

\* C10 witness: an enqueue failed with NotFound while the table holds a row.
C10_Witness == result = "NotFound" /\ Len(rows) >= 1


\* C11: when two processes call selectOrStartRunnableMigration concurrently
\* on a store holding a pending migration, at most one of them performs the
\* pending -> running transition: a caller about to write the transition
\* still finds the row pending and is alone on that row, and a caller that
\* did not read it pending read it after the transition.
C11_OneCallerClaims ==
  \A p \in Procs :
    /\ pc[p] = "claiming" =>
         /\ rows[mig[p]].status = "pending"
         /\ \A q \in Procs \ {p} :
              ~(pc[q] \in {"claiming", "resuming"} /\ mig[q] = mig[p])
    /\ pc[p] = "resuming" => rows[mig[p]].status # "pending"

\* C11 witness: one caller is about to write the transition while the other
\* caller has issued the same query and waits for the row locks.
C11_Witness ==
  \E p, q \in Procs :
    /\ p # q
    /\ pc[p] = "claiming"
    /\ pc[q] = "poll"
    /\ rows[mig[p]].status = "pending"

\* C12 as stated: selectOrStartRunnableMigration never returns a migration
\* whose status was already running before the call.
C12_NeverReturnsRunning ==
  [][ \A p \in Procs :
        Poll(p) /\ mig'[p] # 0 => rows[mig'[p]].status # "running" ]_vars

\* C12 amended: selectOrStartRunnableMigration returns only a migration whose
\* status before the call was pending or running (a running one is returned
\* again, so that its work is resumed), and the returned migration is
\* running after the call.
C12_ReturnsPendingOrRunning ==
  [][ \A p \in Procs :
        Poll(p) /\ mig'[p] # 0 =>
          /\ rows[mig'[p]].status \in {"pending", "running"}
          /\ rows'[mig'[p]].status = "running" ]_vars

\* C12 witness: the call of one process has returned a migration that the
\* other process had started before and is still working on.
C12_Witness ==
  \E p, q \in Procs :
    /\ p # q
    /\ pc[p] = "lock"
    /\ pc[q] \in {"run", "batch", "persist"}
    /\ mig[q] = mig[p]
    /\ rows[mig[p]].status = "running"

\* C13: selectOrStartRunnableMigration(project) returns the record with the
\* lowest id among the records of that project whose status is pending or
\* running, sets its status to running if it was pending, and returns
\* nothing when there is none; it never returns a record of another project
\* or one that is paused, finalizing, succeeded or failed, and it changes no
\* other record.
C13_SelectsLowestRunnable ==
  [][ \A p \in Procs :
        Poll(p) =>
          LET cand == { i \in RowIds(rows) :
                          /\ rows[i].project = options[p].project
                          /\ rows[i].status \in {"pending", "running"} }
          IN  IF cand = {}
                THEN /\ rows' = rows
                     /\ mig'[p] = 0
                     /\ pc'[p] = "sleep"
                ELSE \E i \in cand :
                       /\ \A j \in cand : i <= j
                       /\ mig'[p] = i
                       /\ rows' = [rows EXCEPT ![i].status = "running"] ]_vars

\* C13 witness: the call has returned the first of two rows of the project,
\* now running, and the second row of the project is still pending.
C13_Witness ==
  \E p \in Procs :
    /\ pc[p] = "lock"
    /\ mig[p] = 1
    /\ Len(rows) = 2
    /\ rows[1].status = "running"
    /\ rows[2].project = options[p].project
    /\ rows[2].status = "pending"

\* C14: finalize called on a record with status succeeded is a no-op: it
\* writes nothing to the store, runs no batch, leaves no call in flight and
\* returns without error.
C14_FinalizeSucceededIsNoOp ==
  [][ \A p \in Procs, identifier \in Identifiers :
        ( /\ FinalizeBegin(p, identifier)
          /\ \E i \in RowIds(rows) :
               /\ rows[i].project = options[p].project
               /\ rows[i].timestamp = SplitFirst(identifier)
               /\ rows[i].status = "succeeded" )
        => /\ rows' = rows
           /\ calls' = calls
           /\ fin' = fin
           /\ result' = "ok" ]_vars

\* C14 witness: the migration is succeeded, no call is in flight and the
\* latest call returned without error: the state a no-op finalize starts
\* from and ends in.
C14_Witness ==
  /\ Len(rows) = 1
  /\ rows[1].status = "succeeded"
  /\ result = "ok"
  /\ \A p \in Procs : fin[p].pc = "none"

\* The ranges are the remaining batches of row after cursor c: contiguous,
\* from c + 1 up to max_value, none larger than batch_size.
RemainingAfter(ranges, c, row) ==
  /\ Len(ranges) >= 1
  /\ ranges[1][1] = c + 1
  /\ ranges[Len(ranges)][2] = row.max_value
  /\ \A k \in 1 .. Len(ranges) :
       /\ ranges[k][1] <= ranges[k][2]
       /\ ranges[k][2] - ranges[k][1] + 1 <= row.batch_size
       /\ k > 1 => ranges[k][1] = ranges[k - 1][2] + 1

\* C15: finalize called on a non-succeeded record whose cursor is c <
\* max_value sets the status to finalizing, runs exactly the remaining
\* batches, starting at [c + 1, min(c + batch_size, max_value)], runs no
\* batch at or below c, and comes back from the runner with the status
\* succeeded.
C15_FinalizeRunsTheRemainingBatches ==
  \A p \in Procs :
    /\ fin[p].pc \in {"batch", "persist"} =>
         /\ rows[fin[p].mig].status = "finalizing"
         /\ fin[p].batch[1] > fin[p].start
    /\ fin[p].pc = "reselect" /\ fin[p].start < rows[fin[p].mig].max_value =>
         /\ RemainingAfter(fin[p].ran, fin[p].start, rows[fin[p].mig])
         /\ rows[fin[p].mig].status = "succeeded"

\* C16: finalize returns without error only if the record, re-read after the
\* runner returned, has status succeeded; for any other status the call
\* fails with InconsistentState.
C16_FinalizeEndsOnTheRereadStatus ==
  [][ \A p \in Procs :
        FinalizeEnd(p) =>
          /\ result' = "ok" <=> rows[fin[p].mig].status = "succeeded"
          /\ result' = "InconsistentState" <=> rows[fin[p].mig].status # "succeeded"
          /\ rows' = rows ]_vars

\* C16 witness: a finalize call has just failed with InconsistentState: its
\* runner marked the record succeeded, and before the re-read another call,
\* which had read the record earlier, marked it finalizing.
C16_Witness ==
  /\ result = "InconsistentState"
  /\ \E p \in Procs : fin[p].pc = "run" /\ rows[fin[p].mig].status = "finalizing"

\* C17: if the user batch function raises while finalize is running batches,
\* the finalize call fails to its caller (it ends with the batch's failure,
\* without the loop's 'error' event and without a write to the store), and
\* finalize never returns success with the cursor below max_value.
C17_FinalizeFailsOrCompletes ==
  [][ \A p \in Procs :
        /\ FinalizeRunBatchFails(p) =>
             /\ result' = "BatchFailure"
             /\ fin'[p].pc = "none"
             /\ rows' = rows
             /\ emitted' = emitted
        /\ FinalizeEnd(p) /\ result' = "ok" =>
             rows[fin[p].mig].cursor >= rows[fin[p].mig].max_value ]_vars


\* C18: stop() returns only after the loop has observed the abort signal and
\* exited (running is false), which happens only after any round in flight
\* has completed and given its lock back; after stop() has returned the loop
\* performs no further poll, lock acquisition or batch.
C18_StopReturnsAfterTheLoopExited ==
  /\ [](\A p \in Procs :
          stopPc[p] = "returned" =>
            /\ aborted[p]
            /\ ~running[p]
            /\ pc[p] \in {"idle", "stopped"}
            /\ mig[p] = 0
            /\ \A l \in locks : l[2] # p)
  /\ [][ \A p \in Procs :
           StopReturn(p) => ~running[p] /\ pc[p] \in {"idle", "stopped"} ]_vars

\* C18 witness: stop() has returned on the stopped loop of one process while
\* the loop of the other process is in a batch of a migration that has had
\* a batch before.
C18_Witness ==
  \E p, q \in Procs :
    /\ stopPc[p] = "returned"
    /\ pc[p] = "stopped"
    /\ pc[q] = "batch"
    /\ Len(calls[mig[q]]) >= 1

\* C19: after stop() is called on a started runner, the loop eventually
\* reaches stopped and stop() eventually returns, in every execution in which
\* the round in flight terminates, also when the loop had reported errors
\* before; and a loop that is sleeping when the signal arrives goes to
\* stopped without another poll.
C19_StopEventuallyReturns ==
  /\ \A p \in Procs :
       (stopPc[p] = "spin" /\ running[p])
         ~> (stopPc[p] = "returned" /\ pc[p] = "stopped")
  /\ [][ \A p \in Procs :
           aborted[p] /\ pc[p] \in {"sleep", "top"} =>
             pc'[p] \in {"sleep", "top", "stopped"} ]_vars

\* C19 witness: stop() has returned and the loop is stopped, after the loop
\* had reported an error in its last round.
C19_Witness ==
  \E p \in Procs :
    /\ stopPc[p] = "returned"
    /\ pc[p] = "stopped"
    /\ emitted[p] = 1

\* C20: an error raised during a round (a store query failure, a definition
\* load failure, a batch failure) is reported to the 'error' observer and
\* does not terminate the loop: after the error the loop is still running,
\* holds no lock, and polls again unless stop is signalled.
C20_ErrorsAreReportedAndTheLoopGoesOn ==
  /\ [][ \A p \in Procs :
           PollFails(p) \/ LoadFails(p) \/ RunBatchFails(p) =>
             /\ emitted'[p] = 1
             /\ running'[p]
             /\ pc'[p] \in {"sleep", "top"}
             /\ \A l \in locks' : l[2] # p
             /\ rows' = rows ]_vars
  /\ \A p \in Procs :
       (emitted[p] = 1 /\ pc[p] \in {"sleep", "top"})
         ~> (pc[p] = "poll" \/ aborted[p])

\* C20 witness: a batch of the loop has thrown: the error is reported, the
\* loop is running at the top of its while loop with the lock given back,
\* the cursor is where it was and stop has not been signalled.
C20_Witness ==
  \E p \in Procs :
    /\ emitted[p] = 1
    /\ pc[p] = "top"
    /\ running[p]
    /\ ~aborted[p]
    /\ Len(rows) = 1
    /\ rows[1].status = "running"
    /\ \A l \in locks : l[2] # p

\* C21: one broken migration never halts unrelated migrations: when
\* migration T1, whose batch function always fails and whose definition p2
\* does not know, was enqueued before migration T2 of the same project,
\* whose batches do not fail, and a loop is running, T2 eventually reaches
\* succeeded.
C21_BrokenMigrationDoesNotBlockOthers ==
  ( /\ Len(rows) = 2
    /\ rows[1].timestamp = T1
    /\ rows[2].timestamp = T2
    /\ \A p \in Procs : running[p] )
    ~> ( Len(rows) = 2 /\ rows[2].status = "succeeded" )

\* C22: when the user batch function raises during a normal scheduling
\* round, the error is emitted to the loop's error observer, the cursor is
\* not advanced, the migration's status stays running, and a later round
\* retries the same batch range.
C22_FailedBatchIsRetried ==
  /\ [][ \A p \in Procs :
           RunBatchFails(p) =>
             /\ emitted'[p] = 1
             /\ rows[mig[p]].status = "running"
             /\ rows' = rows
             /\ calls' = calls ]_vars
  /\ \A p \in Procs :
       (emitted[p] = 1 /\ pc[p] = "top")
         ~> (\E q \in Procs :
               /\ pc[q] = "batch"
               /\ rows[mig[q]].timestamp = T1
               /\ batch[q] = NextBatchBounds(rows[mig[q]])
               /\ batch[q][1] = rows[mig[q]].min_value)

\* C22 witness: a batch of the broken migration has just thrown in the loop
\* of p1: the error is reported, and the row is running with its cursor
\* still before the range.
C22_Witness ==
  /\ emitted["p1"] = 1
  /\ pc["p1"] = "top"
  /\ \E i \in RowIds(rows) :
       /\ rows[i].timestamp = T1
       /\ rows[i].status = "running"
       /\ rows[i].cursor = rows[i].min_value - 1

\* C23: when the user batch function raises during a normal scheduling
\* round, the batch is not retried within that run (the round ends) and the
\* caller marks the migration's status failed.
C23_FailedBatchMarksFailed ==
  [][ \A p \in Procs :
        RunBatchFails(p) =>
          /\ pc'[p] = "top"
          /\ rows'[mig[p]].status = "failed" ]_vars

\* C24: under fair scheduling, with started loops that know the definition
\* and a batch function that never fails, every migration enqueued as
\* pending eventually reaches status succeeded with cursor = max_value, also
\* across rounds that end on their budget and across a process crash and
\* restart.
C24_PendingEventuallySucceeds ==
  \A i \in 1 .. 2 :
    (Len(rows) >= i /\ rows[i].status = "pending")
      ~> ( /\ Len(rows) >= i
           /\ rows[i].status = "succeeded"
           /\ rows[i].cursor = rows[i].max_value )

\* C24 witness: the second migration enqueued has succeeded with its cursor
\* at max_value, after a process crashed.
C24_Witness ==
  /\ Len(rows) = 2
  /\ rows[2].status = "succeeded"
  /\ rows[2].cursor = rows[2].max_value
  /\ crashes = 1

\* C25: every write to a record after its insertion is made either by a
\* process that holds the record's lock at the time of the write, or by the
\* transactional pending -> running claim step; this holds for the status
\* writes of finalize as well as for the cursor and status writes of the
\* batch runner.
C25_WritesUnderLockOrClaim ==
  [][ \A i \in RowIds(rows) :
        rows'[i] # rows[i] =>
          \/ \E p \in Procs : << MigrationLock(p, i), p >> \in locks
          \/ /\ rows[i].status = "pending"
             /\ rows'[i] = [rows[i] EXCEPT !.status = "running"]
             /\ \E p \in Procs : Poll(p) ]_vars

\* C26: a batch whose cursor was not persisted before a crash is invoked
\* again by the next run, and a range at or below the persisted cursor is
\* never invoked again: every invocation of runBatch is on the range that
\* starts right after the cursor persisted at that moment.
C26_BatchesStartAfterThePersistedCursor ==
  [][ \A i \in RowIds(rows) :
        calls'[i] # calls[i] =>
          /\ Len(calls'[i]) = Len(calls[i]) + 1
          /\ calls'[i][Len(calls'[i])][1] = rows[i].cursor + 1 ]_vars

\* C27: each batch the runner starts is on the subrange
\* [cursor + 1, min(cursor + batch_size, max_value)] of the cursor persisted
\* at that moment (the last batch is truncated at max_value), and a
\* successful batch sets the cursor to the subrange's upper bound and
\* nothing else.
C27_BatchIsTheNextSubrange ==
  [][ \A p \in Procs :
        /\ RunCheck(p) /\ pc'[p] = "batch" =>
             LET row == rows[mig[p]] IN
             /\ batch'[p][1] = row.cursor + 1
             /\ batch'[p][2] = IF row.cursor + row.batch_size < row.max_value
                                 THEN row.cursor + row.batch_size
                                 ELSE row.max_value
        /\ Persist(p) =>
             rows' = [rows EXCEPT ![mig[p]].cursor = batch[p][2]] ]_vars

\* C27 witness: the migration with min 1, max 2500 and batch size 1000 has
\* succeeded after the three batches [1, 1000], [1001, 2000], [2001, 2500].
C27_Witness ==
  \E i \in RowIds(rows) :
    /\ calls[i] = << <<1, 1000>>, <<1001, 2000>>, <<2001, 2500>> >>
    /\ rows[i].cursor = 2500
    /\ rows[i].status = "succeeded"

\* C28: when a round's time budget is exhausted or cancellation is signalled
\* before the cursor reached max_value, the batch runner starts no further
\* batch, returns without raising an error, and leaves the record's status
\* running with the cursor at the last completed batch; the lock is given
\* back.
C28_YieldLeavesTheRecordRunning ==
  [][ \A p \in Procs :
        /\ RunYield(p) /\ rows[mig[p]].cursor < rows[mig[p]].max_value =>
             /\ rows[mig[p]].status = "running"
             /\ rows' = rows
             /\ calls' = calls
             /\ emitted' = emitted
             /\ pc'[p] = "top"
             /\ \A l \in locks' : l[2] # p
        /\ aborted[p] /\ pc[p] = "run" => pc'[p] # "batch" ]_vars

\* C28 witness: stop was signalled while the loop was in the runner: the
\* round has ended after the first batch without an error event, the record
\* is running with the cursor between the ends of its range, and the loop
\* holds no lock.
C28_Witness ==
  \E p \in Procs :
    /\ aborted[p]
    /\ pc[p] = "top"
    /\ emitted[p] = 0
    /\ \A l \in locks : l[2] # p
    /\ Len(rows) = 1
    /\ rows[1].status = "running"
    /\ rows[1].cursor >= rows[1].min_value
    /\ rows[1].cursor < rows[1].max_value

\* C29: when the loop cannot acquire the migration's lock because another
\* process holds it, the round reports no work: it emits no error event,
\* runs no batch, writes nothing to the store or the lock service, and the
\* loop, still running, goes to its sleep before polling again.
C29_LockUnavailableIsNoWork ==
  [][ \A p \in Procs :
        ( /\ TryLock(p)
          /\ \E l \in locks : l[1] = MigrationLock(p, mig[p]) /\ l[2] # p )
        => /\ pc'[p] = "sleep"
           /\ running'[p]
           /\ emitted' = emitted
           /\ rows' = rows
           /\ calls' = calls
           /\ locks' = locks ]_vars

\* C29 witness: one loop is in a batch under the lock and the other loop,
\* which had not reported an error, is asleep with no migration in hand.
C29_Witness ==
  \E p, q \in Procs :
    /\ p # q
    /\ pc[q] = "batch"
    /\ << MigrationLock(q, mig[q]), q >> \in locks
    /\ pc[p] = "sleep"
    /\ mig[p] = 0
    /\ emitted[p] = 0
    /\ running[p]

\* C30: when the runnable migration returned by the store has a timestamp
\* for which this process knows no definition, the round reports no work:
\* it attempts no lock acquisition, runs no batch, emits no error event, and
\* the loop, still running, sleeps and polls again.
C30_UnknownDefinitionIsNoWork ==
  /\ [][ \A p \in Procs :
           ( /\ Poll(p)
             /\ RunnableCandidate(rows, options[p].project) # 0
             /\ rows[RunnableCandidate(rows, options[p].project)].timestamp
                  \notin options[p].files )
           => /\ pc'[p] = "sleep"
              /\ mig'[p] = 0
              /\ running'[p]
              /\ emitted' = emitted
              /\ locks' = locks
              /\ calls' = calls ]_vars
  /\ \A p \in Procs : (pc[p] = "sleep") ~> (pc[p] = "poll")

\* C30 witness: p2, which has no file for migration 20, is asleep without an
\* error while migration 20 is the oldest runnable row and no lock is held.
C30_Witness ==
  /\ pc["p2"] = "sleep"
  /\ emitted["p2"] = 0
  /\ running["p2"]
  /\ locks = {}
  /\ Len(rows) >= 1
  /\ rows[1].timestamp = T1
  /\ rows[1].status = "running"
  /\ \A p \in Procs : mig[p] = 0 /\ pc[p] \in {"sleep", "idle"}

\* C31: after a round the loop goes to the next poll without sleeping if
\* and only if the round did work, that is, ran under the lock; a round
\* without work (no candidate, unknown definition, lock unavailable) goes to
\* the backoff sleep, and only the end of that sleep leads to the next poll.
C31_SleepIffNoWork ==
  [][ \A p \in Procs :
        /\ ( pc[p] \in {"poll", "lock"} /\ pc'[p] \notin {"poll", "lock", "run"} )
             => pc'[p] = "sleep"
        /\ ( pc[p] \in {"run", "batch"} /\ pc'[p] \notin {"run", "batch", "persist"} )
             => pc'[p] = "top"
        /\ ( pc'[p] = "top" /\ pc[p] \notin {"top", "idle", "stopped"} )
             => \/ pc[p] = "sleep"
                \/ /\ mig[p] # 0
                   /\ << MigrationLock(p, mig[p]), p >> \in locks
        /\ ( pc'[p] = "poll" /\ pc[p] # "poll" ) => pc[p] = "top" ]_vars

\* C31 witness: p1 is back at the top of its loop straight from a round under
\* the lock (its error event not yet cleared) while p2, whose round found
\* nothing it could work on, is in its sleep.
C31_Witness ==
  /\ pc["p1"] = "top"
  /\ emitted["p1"] = 1
  /\ pc["p2"] = "sleep"
  /\ mig["p2"] = 0
  /\ Len(rows) >= 1
  /\ locks = {}

\* C32: the lock acquired for a scheduling round is released when the round
\* ends, whether the batch runner completed, ran out of budget, was
\* cancelled or raised: a loop that is not started, at its top, polling,
\* about to try the lock, sleeping or stopped holds no migration lock.
C32_NoLockOutsideTheRound ==
  \A p \in Procs :
    pc[p] \in {"idle", "top", "poll", "lock", "sleep", "stopped"}
      => \A l \in locks : l[2] # p

\* C32 witness: the loop of p1 has stopped after a round that was cancelled
\* with the migration under way (a batch run, the row still running), and
\* no lock is left behind.
C32_Witness ==
  /\ pc["p1"] = "stopped"
  /\ aborted["p1"]
  /\ locks = {}
  /\ Len(rows) >= 1
  /\ rows[1].status = "running"
  /\ Len(calls[1]) >= 1
  /\ pc["p2"] = "idle"

\* C33 as stated: once the abort signal is set, the loop initiates no new
\* selectOrStartRunnableMigration call and no new lock acquisition.
C33_NoPollNoLockOnceAborted ==
  [][ \A p \in Procs :
        aborted[p] =>
          /\ ( pc'[p] = "poll" => pc[p] = "poll" )
          /\ \A l \in locks' \ locks : l[2] # p ]_vars

\* C33 amended: the signal is checked at the top of every iteration, so once
\* it is set no new poll is initiated, and the batch runner checks it before
\* every batch, so no new batch is started; but a round whose poll was
\* already under way when the signal was set still goes on to acquire the
\* lock, and then yields before its first batch, releasing it.
C33_NoPollNoBatchOnceAborted ==
  [][ \A p \in Procs :
        aborted[p] =>
          /\ ( pc'[p] = "poll" => pc[p] = "poll" )
          /\ ( pc'[p] = "batch" => pc[p] = "batch" )
          /\ ( pc[p] = "run" => pc'[p] \in {"run", "top"} ) ]_vars

\* C33 witness: p1 was aborted during the poll that moved the migration to
\* running; its loop has stopped and no batch was ever run.
C33_Witness ==
  /\ aborted["p1"]
  /\ pc["p1"] = "stopped"
  /\ pc["p2"] = "idle"
  /\ Len(rows) >= 1
  /\ rows[1].status = "running"
  /\ calls[1] = << >>
  /\ locks = {}

\* Row `older` of p's project is running with its lock held by another
\* process while a later row of the project, known to p, is pending.
OlderHeldNewerPending(p, older, newer) ==
  /\ older < newer
  /\ rows[older].project = options[p].project
  /\ rows[newer].project = options[p].project
  /\ rows[older].status = "running"
  /\ rows[newer].status = "pending"
  /\ rows[newer].timestamp \in options[p].files
  /\ \E q \in Procs \ {p} : << MigrationLock(q, older), q >> \in locks

\* C34: while an older migration of a project is running and its lock is
\* held by one process, the scheduling round of another, idle process
\* selects and attempts a newer pending migration of the same project.
C34_NewerIsAttemptedWhileOlderIsHeld ==
  [][ \A p \in Procs : \A older, newer \in RowIds(rows) :
        ( OlderHeldNewerPending(p, older, newer) /\ Poll(p) )
          => /\ mig'[p] # 0
             /\ rows[mig'[p]].status = "pending" ]_vars

\* What the rounds do instead: a round never selects a row while an earlier
\* row of the project is pending or running.
OlderRunnableIsSelectedFirst ==
  [][ \A p \in Procs :
        ( Poll(p) /\ mig'[p] # 0 )
          => \A i \in RowIds(rows) :
               ( i < mig'[p] /\ rows[i].project = options[p].project )
                 => rows[i].status \notin {"pending", "running"} ]_vars

\* C35: every record whose status is not pending satisfies
\* min_value <= max_value, whatever getParameters() returned at enqueue
\* (max below min and max null included).
C35_MinAtMostMaxOnceNotPending ==
  \A i \in RowIds(rows) :
    rows[i].status # "pending" => rows[i].min_value <= rows[i].max_value

\* C36: a scheduling round starts the batch runner only for a record whose
\* status in the store is running at the moment the runner starts under the
\* lock: the row read by the poll is not stale by then.
C36_RunnerStartsOnARunningRecord ==
  [][ \A p \in Procs :
        ( TryLock(p) /\ pc'[p] = "run" )
          => rows[mig[p]].status = "running" ]_vars

\* The lock callback of p's round is running or is entered by this step.
CallbackRuns(p) ==
  \/ pc[p] \in {"run", "batch", "persist"}
  \/ /\ pc[p] = "lock"
     /\ ~LockHeld(lockNameForTimestamp(p, rows[mig[p]].timestamp))

\* C37 as stated: maybePerformWork returns true whenever the lock callback
\* ran, so every round that acquired the lock ends at the loop top without
\* the backoff sleep, and a raising runner is emitted and not rethrown.
C37_CallbackRanMeansNoSleep ==
  [][ \A p \in Procs :
        /\ ( CallbackRuns(p) /\ pc'[p] \notin {"lock", "run", "batch", "persist"} )
             => pc'[p] = "top"
        /\ RunBatchFails(p) => ( emitted'[p] = 1 /\ pc'[p] = "top" ) ]_vars

\* C37 amended: a round whose batch runner raised counts as work: the error
\* is emitted by maybePerformWork, not rethrown, the lock is released and
\* the loop goes to its top without sleeping; the same holds whenever the
\* callback ran to its end.  A callback that throws before the runner is
\* started (the class cannot be loaded) makes maybePerformWork reject: the
\* loop emits the error and sleeps.
C37_RaisingRunnerCountsAsWork ==
  [][ \A p \in Procs :
        /\ RunBatchFails(p)
             => /\ emitted'[p] = 1
                /\ pc'[p] = "top"
                /\ running'[p]
                /\ rows' = rows
                /\ \A l \in locks' : l[2] # p
        /\ ( pc[p] \in {"run", "batch", "persist"}
             /\ pc'[p] \notin {"run", "batch", "persist"} )
             => pc'[p] = "top"
        /\ LoadFails(p)
             => /\ emitted'[p] = 1
                /\ pc'[p] = "sleep"
                /\ locks' = locks ]_vars

\* C37 witness: the first batch of p1's round has thrown: p1 is at the top
\* of its loop, not asleep, with the error emitted and nothing run.
C37_Witness ==
  /\ pc["p1"] = "top"
  /\ emitted["p1"] = 1
  /\ running["p1"]
  /\ pc["p2"] = "idle"
  /\ Len(rows) >= 1
  /\ rows[1].status = "running"
  /\ calls[1] = << >>

\* C38: finalizeBatchedMigration writes status finalizing to any record
\* whose status is neither succeeded nor finalizing (pending, running,
\* paused or failed) before it resolves the definition; when no definition
\* matches the identifier the call then fails with an error and the record
\* is left in status finalizing with no batch run.
C38_FinalizeMarksBeforeItResolves ==
  [][ \A p \in Procs :
        /\ \A identifier \in Identifiers :
             ( /\ FinalizeBegin(p, identifier)
               /\ \E i \in RowIds(rows) :
                    /\ rows[i].project = options[p].project
                    /\ rows[i].timestamp = SplitFirst(identifier)
                    /\ rows[i].status \in {"pending", "running", "paused", "failed"} )
             => /\ fin'[p].pc = "mark"
                /\ result' = result
                /\ rows' = rows
        /\ FinalizeMark(p)
             => /\ rows'[fin[p].mig].status = "finalizing"
                /\ calls' = calls
                /\ SplitFirst(fin[p].identifier) \notin options[p].files
                     => /\ result' = "NotFound"
                        /\ fin'[p].pc = "none" ]_vars

\* C38 witness: the call through p2, which has no file for migration 20,
\* has failed; the record is finalizing and no batch was run.
C38_Witness ==
  /\ result = "NotFound"
  /\ rows[1].status = "finalizing"
  /\ rows[1].cursor = rows[1].min_value - 1
  /\ calls[1] = << >>
  /\ \A p \in Procs : fin[p].pc = "none"

\* C39: a scheduling round performs the pending -> running transition in
\* the store before it checks whether this process knows the migration's
\* definition: a process that does not recognize the migration still moves
\* it from pending to running and then does no work on it.
C39_UnknownMigrationIsStillClaimed ==
  [][ \A p \in Procs :
        LET id == RunnableCandidate(rows, options[p].project) IN
        ( /\ Poll(p)
          /\ id # 0
          /\ rows[id].status = "pending"
          /\ rows[id].timestamp \notin options[p].files )
        => /\ rows' = [rows EXCEPT ![id].status = "running"]
           /\ pc'[p] = "sleep"
           /\ mig'[p] = 0
           /\ calls' = calls
           /\ locks' = locks ]_vars

\* C39 witness: only p2, which has no file for migration 20, has run a
\* round: migration 20 is running with no batch run and p2 is asleep.
C39_Witness ==
  /\ pc["p1"] = "idle"
  /\ pc["p2"] = "sleep"
  /\ Len(rows) >= 1
  /\ rows[1].timestamp = T1
  /\ rows[1].status = "running"
  /\ rows[1].cursor = rows[1].min_value - 1
  /\ calls[1] = << >>

\* The positions of a loop between the start of loop() and its return.
LoopPositions == {"top", "poll", "lock", "run", "batch", "persist", "sleep"}

\* C40: within one runner instance at most one scheduling loop is ever
\* active: the running flag is true exactly from the start of loop() until
\* the loop observes the abort signal; start() while running is true throws
\* 'already running' and starts no second loop (a loop position is only
\* ever left by the loop's own step); and the singleton rejects a second
\* init and any enqueue, finalize, start or stop before init.
C40_OneLoopPerRunner ==
  /\ [](\A p \in Procs : running[p] <=> pc[p] \in LoopPositions)
  /\ [][ \A p \in Procs :
           /\ StartRejected(p)
                => /\ result' = "AlreadyRunning"
                   /\ << rows, calls, locks, loopVars >>' = << rows, calls, locks, loopVars >>
           /\ ( pc'[p] = "top" /\ pc[p] # "top" )
                => \/ pc[p] \in {"idle", "stopped"} /\ ~running[p]
                   \/ pc[p] = "sleep"
                   \/ pc[p] \in {"run", "batch"} /\ \A l \in locks' : l[2] # p
           /\ ( pc[p] # "null" /\ InitBatchedMigrations(p) )
                => /\ result' = "AlreadyInitialized"
                   /\ << rows, calls, locks, loopVars >>' = << rows, calls, locks, loopVars >>
           /\ AssertRunnerThrows(p)
                => /\ result' = "NotInitialized"
                   /\ << rows, calls, locks, loopVars >>' = << rows, calls, locks, loopVars >>
           /\ pc[p] = "null"
                => /\ ~running'[p]
                   /\ aborted'[p] = aborted[p]
                   /\ stopPc'[p] = stopPc[p]
                   /\ pc'[p] \in {"null", "idle"}
           /\ ( \A q \in Procs : pc[q] = "null" )
                => rows' = rows /\ calls' = calls ]_vars

\* C40 witness: start() was called on p1 while its loop was in a batch and
\* was rejected; the one loop goes on under its lock.
C40_Witness ==
  /\ result = "AlreadyRunning"
  /\ running["p1"]
  /\ pc["p1"] = "batch"
  /\ << MigrationLock("p1", mig["p1"]), "p1" >> \in locks
  /\ pc["p2"] = "null"
====
